---- MODULE Spec2Model ----
(***************************************************************************)
(* toeplitz_matrix<T, A> of boost/numeric/ublas/toeplitz.hpp as a state    *)
(* machine.  A matrix object is a record (size1, size2, data); data is the *)
(* compact store, data[k + 1] holding slot k.  The checked build is        *)
(* modelled: a failing BOOST_UBLAS_CHECK raises its exception.  Iterators  *)
(* are pairs of indices; a traversal (walk) and two iterators held for     *)
(* comparison (held) are part of the state.  Record fields are written in  *)
(* one fixed order throughout.                                             *)
(***************************************************************************)
EXTENDS Integers, Sequences, FiniteSets, TLC

\* ---------------------------------------------------------------- bounds
MaxDim == 2
PairDim == 2
SizeBits == 4

\* size_type is unsigned: arithmetic is modulo 2^SizeBits.
SizeMod == 2 ^ SizeBits

\* The largest store the allocator can hand out (max_size); always smaller
\* than the largest size_type value.
MaxAlloc == (SizeMod \div 2) - 1

\* value_type() and the element values the inputs are drawn from.
Default == 0
Values == {0, 1}

Slots == {"a", "b"}

\* ------------------------------------------------------ the storage array
\* array_type(n): a store of n default elements; a request the allocator
\* cannot serve raises bad_alloc.
ArrayNew(n) ==
    IF n > MaxAlloc
    THEN [err |-> "bad_alloc", data |-> <<>>]
    ELSE [err |-> "none", data |-> [k \in 1..n |-> Default]]

\* array_type::operator[] (k), checked.
ArrayAt(d, k) ==
    IF k < Len(d)
    THEN [err |-> "none", val |-> d[k + 1]]
    ELSE [err |-> "bad_index", val |-> Default]

\* array_type::operator[] (k) = v, checked.
ArrayPut(d, k, v) ==
    IF k < Len(d)
    THEN [err |-> "none", data |-> [d EXCEPT ![k + 1] = v]]
    ELSE [err |-> "bad_index", data |-> d]

\* array_type::resize (n): the store is reallocated to n default elements.
ArrayResize(d, n) ==
    IF n > MaxAlloc
    THEN [err |-> "bad_alloc", data |-> d]
    ELSE [err |-> "none", data |-> [k \in 1..n |-> Default]]

\* array_type::operator = (a): this store becomes a copy of a's elements,
\* held in a buffer of its own.
ArrayAssign(d, a) == [k \in 1..Len(a) |-> a[k]]

\* std::fill (begin, end, v)
ArrayFill(d, v) == [k \in 1..Len(d) |-> v]

\* std::copy (src.rbegin (), src.rend (), d.begin ())
RECURSIVE CopyReversed(_, _, _)
CopyReversed(src, d, k) ==
    IF k > Len(src) THEN d
    ELSE CopyReversed(src, [d EXCEPT ![k] = src[Len(src) + 1 - k]], k + 1)

\* std::copy (src.begin () + 1, src.end (), d.begin () + at)
RECURSIVE CopyTail(_, _, _, _)
CopyTail(src, d, at, k) ==
    IF k > Len(src) THEN d
    ELSE CopyTail(src, [d EXCEPT ![at + k - 1] = src[k]], at, k + 1)

\* ------------------------------------------------------------ the matrix
Matrix(s1, s2, d) == [data |-> d, live |-> TRUE, size1 |-> s1, size2 |-> s2]

\* No object: a constructor that raised leaves none behind.
NoMatrix == [data |-> <<>>, live |-> FALSE, size1 |-> 0, size2 |-> 0]

\* The requested store length size1 + size2 - 1, in size_type arithmetic.
StoreLen(s1, s2) == (s1 + s2 - 1) % SizeMod

\* toeplitz_matrix ()
CtorDefault == [err |-> "none", obj |-> Matrix(0, 0, <<>>), allocs |-> <<0>>]

\* toeplitz_matrix (size1, size2)
CtorDims(s1, s2) ==
    LET n == StoreLen(s1, s2)
        st == ArrayNew(n)
    IN  IF st.err # "none"
        THEN [err |-> st.err, obj |-> NoMatrix, allocs |-> <<n>>]
        ELSE [err |-> "none", obj |-> Matrix(s1, s2, st.data), allocs |-> <<n>>]

\* toeplitz_matrix (size1, size2, data)
CtorData(s1, s2, d) ==
    [err |-> "none", obj |-> Matrix(s1, s2, d), allocs |-> <<Len(d)>>]

\* CtorRowCol without the comparison of the two corner values.
CtorRowColAnyCorner(row, column) ==
    LET n == StoreLen(Len(row), Len(column))
        st == ArrayNew(n)
    IN  IF st.err # "none" \/ Len(row) = 0 \/ Len(column) = 0
        THEN [err |-> IF st.err # "none" THEN st.err ELSE "external_logic",
              obj |-> NoMatrix, allocs |-> <<n>>]
        ELSE [err |-> "none",
              obj |-> Matrix(Len(column), Len(row),
                           CopyTail(row, CopyReversed(column, st.data, 1),
                                    Len(column), 2)),
              allocs |-> <<n>>]

\* CtorRowCol copying the column in order instead of reversed.
CtorRowColForward(row, column) ==
    LET n == StoreLen(Len(row), Len(column))
        st == ArrayNew(n)
    IN  IF st.err # "none" \/ Len(row) = 0 \/ Len(column) = 0
        THEN [err |-> IF st.err # "none" THEN st.err ELSE "external_logic",
              obj |-> NoMatrix, allocs |-> <<n>>]
        ELSE IF row[1] # column[1]
        THEN [err |-> "external_logic", obj |-> NoMatrix, allocs |-> <<n>>]
        ELSE [err |-> "none",
              obj |-> Matrix(Len(column), Len(row),
                           CopyTail(row,
                                    [k \in 1..n |->
                                        IF k <= Len(column) THEN column[k]
                                        ELSE st.data[k]],
                                    Len(column), 2)),
              allocs |-> <<n>>]

\* toeplitz_matrix (row, column): data_ is built by the member initializer
\* before the body runs its checks.
CtorRowCol(row, column) ==
    LET n == StoreLen(Len(row), Len(column))
        st == ArrayNew(n)
    IN  IF st.err # "none"
        THEN [err |-> st.err, obj |-> NoMatrix, allocs |-> <<n>>]
        ELSE IF Len(row) = 0
        THEN [err |-> "external_logic", obj |-> NoMatrix, allocs |-> <<n>>]
        ELSE IF Len(column) = 0
        THEN [err |-> "external_logic", obj |-> NoMatrix, allocs |-> <<n>>]
        ELSE IF row[1] # column[1]
        THEN [err |-> "external_logic", obj |-> NoMatrix, allocs |-> <<n>>]
        ELSE [err |-> "none",
              obj |-> Matrix(Len(column), Len(row),
                           CopyTail(row, CopyReversed(column, st.data, 1),
                                    Len(column), 2)),
              allocs |-> <<n>>]

\* Offset with the row-major index of a dense matrix.
OffsetDense(m, i, j) == (i * m.size2 + j) % SizeMod

\* The slot operator () const indexes: the branch taken on and below the
\* main diagonal (i >= j) and the branch taken above it, as written.
OffsetLower(m, i, j) == (m.size1 - 1 - i + j) % SizeMod

\* OffsetUpper one slot further.
OffsetUpperShifted(m, i, j) == (m.size1 + j - i) % SizeMod

OffsetUpper(m, i, j) == (m.size1 + j - i - 1) % SizeMod

Offset(m, i, j) ==
    IF i >= j THEN OffsetLower(m, i, j) ELSE OffsetUpper(m, i, j)

\* The slot the mutable operator () indexes, both branches as written.
OffsetMutable(m, i, j) ==
    IF i >= j
    THEN (m.size1 - 1 - i + j) % SizeMod
    ELSE (m.size1 + j - i - 1) % SizeMod

\* At without the check of the column index.
AtNoColumnCheck(m, i, j) ==
    IF ~(i < m.size1) THEN [err |-> "bad_index", val |-> Default]
    ELSE ArrayAt(m.data, Offset(m, i, j))

\* operator () (i, j) const
At(m, i, j) ==
    IF ~(i < m.size1) THEN [err |-> "bad_index", val |-> Default]
    ELSE IF ~(j < m.size2) THEN [err |-> "bad_index", val |-> Default]
    ELSE ArrayAt(m.data, Offset(m, i, j))

\* Put indexing the mirrored cell (j, i).
PutTransposed(m, i, j, t) ==
    IF ~(i < m.size1) THEN [err |-> "bad_index", obj |-> m]
    ELSE IF ~(j < m.size2) THEN [err |-> "bad_index", obj |-> m]
    ELSE LET st == ArrayPut(m.data, OffsetMutable(m, j, i), t)
         IN  [err |-> st.err, obj |-> [m EXCEPT !.data = st.data]]

\* operator () (i, j) = t
Put(m, i, j, t) ==
    IF ~(i < m.size1) THEN [err |-> "bad_index", obj |-> m]
    ELSE IF ~(j < m.size2) THEN [err |-> "bad_index", obj |-> m]
    ELSE LET st == ArrayPut(m.data, OffsetMutable(m, i, j), t)
         IN  [err |-> st.err, obj |-> [m EXCEPT !.data = st.data]]

\* begin1 () / end1 () / begin2 () / end2 (): an iterator is the pair of
\* indices it holds.
Begin1(m) == [it1 |-> 0, it2 |-> 0]
End1(m) == [it1 |-> m.size1, it2 |-> 0]
Begin2(m) == [it1 |-> 0, it2 |-> 0]
End2(m) == [it1 |-> 0, it2 |-> m.size2]

\* operator * () of the four iterator classes
Deref(m, it) == At(m, it.it1, it.it2)

\* operator ++ () of const_iterator1 / iterator1, and of const_iterator2 /
\* iterator2: the advancing index grows by one, in size_type arithmetic.
Inc1(it) == [it EXCEPT !.it1 = (@ + 1) % SizeMod]
Inc2(it) == [it EXCEPT !.it2 = (@ + 1) % SizeMod]

\* operator -- () of const_iterator1 / iterator1, and of const_iterator2 /
\* iterator2
Dec1(it) == [it EXCEPT !.it1 = (@ - 1) % SizeMod]
Dec2(it) == [it EXCEPT !.it2 = (@ - 1) % SizeMod]

\* begin () / end () of a row position: the column iterators of row it1_.
RowBegin(m, it) == [it1 |-> it.it1, it2 |-> 0]

\* RowEnd standing at the number of rows.
RowEndSquare(m, it) == [it1 |-> it.it1, it2 |-> m.size1]

RowEnd(m, it) == [it1 |-> it.it1, it2 |-> m.size2]

\* begin () / end () of a column position: the row iterators of column it2_.
ColBegin(m, it) == [it1 |-> 0, it2 |-> it.it2]
ColEnd(m, it) == [it1 |-> m.size1, it2 |-> it.it2]

\* operator == of const_iterator1 / iterator1: x of matrix t against y of
\* matrix u.
Equal1(t, x, u, y) ==
    IF t # u THEN [err |-> "external_logic", val |-> FALSE]
    ELSE IF x.it2 # y.it2 THEN [err |-> "external_logic", val |-> FALSE]
    ELSE [err |-> "none", val |-> x.it1 = y.it1]

\* operator == of const_iterator2 / iterator2
Equal2(t, x, u, y) ==
    IF t # u THEN [err |-> "external_logic", val |-> FALSE]
    ELSE IF x.it1 # y.it1 THEN [err |-> "external_logic", val |-> FALSE]
    ELSE [err |-> "none", val |-> x.it2 = y.it2]

\* A reverse iterator (reverse_iterator_base1 / reverse_iterator_base2)
\* is the forward iterator it wraps, its base: ++ moves the base back by
\* one, * reads the position before the base, == compares the bases.
ReverseInc(axis, base) == IF axis = 1 THEN Dec1(base) ELSE Dec2(base)
ReverseDeref(m, axis, base) == Deref(m, ReverseInc(axis, base))
ReverseEqual(t, axis, x, y) ==
    IF axis = 1 THEN Equal1(t, x, t, y) ELSE Equal2(t, x, t, y)

\* RBegin1 wrapping begin1 ().
RBegin1AtBegin(m) == Begin1(m)

\* rbegin1 () / rend1 () / rbegin2 () / rend2 (): the bases wrapped.
RBegin1(m) == End1(m)
REnd1(m) == Begin1(m)
RBegin2(m) == End2(m)
REnd2(m) == Begin2(m)

\* rbegin () / rend () of a row position and of a column position
RowRBegin(m, it) == RowEnd(m, it)
RowREnd(m, it) == RowBegin(m, it)
ColRBegin(m, it) == ColEnd(m, it)
ColREnd(m, it) == ColBegin(m, it)

\* difference_type (n): a size_type value read as a signed one.
ToDifference(n) == IF n >= SizeMod \div 2 THEN n - SizeMod ELSE n

\* Minus1 without the comparison of the fixed column.
Minus1AnyColumn(t, x, u, y) ==
    IF t # u THEN [err |-> "external_logic", val |-> 0]
    ELSE [err |-> "none", val |-> ToDifference((x.it1 - y.it1) % SizeMod)]

\* operator - of const_iterator1 / iterator1
Minus1(t, x, u, y) ==
    IF t # u THEN [err |-> "external_logic", val |-> 0]
    ELSE IF x.it2 # y.it2 THEN [err |-> "external_logic", val |-> 0]
    ELSE [err |-> "none", val |-> ToDifference((x.it1 - y.it1) % SizeMod)]

\* operator - of const_iterator2 / iterator2
Minus2(t, x, u, y) ==
    IF t # u THEN [err |-> "external_logic", val |-> 0]
    ELSE IF x.it1 # y.it1 THEN [err |-> "external_logic", val |-> 0]
    ELSE [err |-> "none", val |-> ToDifference((x.it2 - y.it2) % SizeMod)]

\* operator < of const_iterator1 / iterator1
Less1(t, x, u, y) ==
    IF t # u THEN [err |-> "external_logic", val |-> FALSE]
    ELSE IF x.it2 # y.it2 THEN [err |-> "external_logic", val |-> FALSE]
    ELSE [err |-> "none", val |-> x.it1 < y.it1]

\* operator < of const_iterator2 / iterator2
Less2(t, x, u, y) ==
    IF t # u THEN [err |-> "external_logic", val |-> FALSE]
    ELSE IF x.it1 # y.it1 THEN [err |-> "external_logic", val |-> FALSE]
    ELSE [err |-> "none", val |-> x.it2 < y.it2]

\* ResizeOf without the check of the preserving branch.
ResizeUnchecked(m, s1, s2, preserve) ==
    IF preserve
    THEN [err |-> "none", obj |-> [m EXCEPT !.size1 = s1, !.size2 = s2],
          allocs |-> <<>>]
    ELSE LET n == StoreLen(s1, s2)
             st == ArrayResize(m.data, n)
         IN  [err |-> st.err,
              obj |-> [m EXCEPT !.size1 = s1, !.size2 = s2, !.data = st.data],
              allocs |-> <<n>>]

\* ResizeOf reallocating the store in the preserving branch too.
ResizeDiscarding(m, s1, s2, preserve) ==
    IF preserve /\ (s1 + s2) % SizeMod # (m.size1 + m.size2) % SizeMod
    THEN [err |-> "external_logic", obj |-> m, allocs |-> <<>>]
    ELSE LET n == StoreLen(s1, s2)
             st == ArrayResize(m.data, n)
         IN  [err |-> st.err,
              obj |-> [m EXCEPT !.size1 = s1, !.size2 = s2, !.data = st.data],
              allocs |-> IF preserve THEN <<>> ELSE <<n>>]

\* resize (size1, size2, preserve)
ResizeOf(m, s1, s2, preserve) ==
    IF preserve
    THEN IF (s1 + s2) % SizeMod # (m.size1 + m.size2) % SizeMod
         THEN [err |-> "external_logic", obj |-> m, allocs |-> <<>>]
         ELSE [err |-> "none", obj |-> [m EXCEPT !.size1 = s1, !.size2 = s2],
               allocs |-> <<>>]
    ELSE LET n == StoreLen(s1, s2)
             st == ArrayResize(m.data, n)
         IN  [err |-> st.err,
              obj |-> [m EXCEPT !.size1 = s1, !.size2 = s2, !.data = st.data],
              allocs |-> <<n>>]

\* ClearOf stopping one slot short of the end.
ClearButLast(m) ==
    [m EXCEPT !.data = [k \in 1..Len(m.data) |->
                           IF k < Len(m.data) THEN Default ELSE m.data[k]]]

\* clear ()
ClearOf(m) == [m EXCEPT !.data = ArrayFill(m.data, Default)]

\* AssignOf taking the sizes and leaving the store as it was.
AssignSizesOnly(self, m) ==
    [self EXCEPT !.size1 = m.size1, !.size2 = m.size2]

\* operator = (m): the sizes and a copy of m's store.
AssignOf(self, m) ==
    [self EXCEPT !.size1 = m.size1, !.size2 = m.size2,
                 !.data = ArrayAssign(self.data, m.data)]

\* SwapOf leaving size2_ where it was.
SwapButSize2(ms, t, u) ==
    IF t # u
    THEN [ms EXCEPT ![t] = [@ EXCEPT !.size1 = ms[u].size1,
                                     !.data = ms[u].data],
                    ![u] = [@ EXCEPT !.size1 = ms[t].size1,
                                     !.data = ms[t].data]]
    ELSE ms

\* swap (m): the three members are exchanged unless m is this object.
SwapOf(ms, t, u) ==
    IF t # u
    THEN [ms EXCEPT ![t] = [@ EXCEPT !.size1 = ms[u].size1,
                                     !.size2 = ms[u].size2,
                                     !.data = ms[u].data],
                    ![u] = [@ EXCEPT !.size1 = ms[t].size1,
                                     !.size2 = ms[t].size2,
                                     !.data = ms[t].data]]
    ELSE ms

\* ------------------------------------------------------------ the state
VARIABLES mats, last, walk, held

vars == <<mats, last, walk, held>>

\* The call the model took last: the operation, the object it was applied
\* to, the constructor's or the two-object operation's arguments (for a
\* preserving resize that returned: the sizes it found), the
\* exception raised ("none" when it returned), the value read or written,
\* and the lengths of the store allocations it requested.
Call(op, tgt, args, err, ret, allocs) ==
    [err |-> err, allocs |-> allocs, op |-> op, tgt |-> tgt, args |-> args,
     ret |-> ret]

\* A traversal in progress: the matrix walked, the axis of the outer
\* loop, the iterators of the outer and of the inner loop, the increments
\* the outer iterator took and the cells dereferenced, each with the value
\* it read.  pc is the loop the traversal stands in, kind the loops run.
Walk(pc, of, major, outer, inner, incs, seen, kind) ==
    [pc |-> pc, of |-> of, major |-> major, outer |-> outer, inner |-> inner,
     incs |-> incs, seen |-> seen, kind |-> kind]

NoWalk == Walk("idle", "a", 1, [it1 |-> 0, it2 |-> 0], [it1 |-> 0, it2 |-> 0],
               0, <<>>, "forward")

\* An iterator a caller holds: the matrix it refers to, its class
\* (axis 1: iterator1 / const_iterator1, axis 2: iterator2 /
\* const_iterator2) and its two indices.
Iter(owner, axis, pos) == [axis |-> axis, owner |-> owner, pos |-> pos]

\* The two iterators held, both a.begin1 ().
NoHeld == <<Iter("a", 1, [it1 |-> 0, it2 |-> 0]),
            Iter("a", 1, [it1 |-> 0, it2 |-> 0])>>

Init ==
    /\ mats = [t \in Slots |-> CtorDefault.obj]
    /\ last = Call("ctor", "a", <<"default">>, "none", Default, <<0>>)
    /\ walk = NoWalk
    /\ held = NoHeld

\* ------------------------------------------------------------ the inputs
Dims == 0..MaxDim
Idx == 0..MaxDim
SeqsUpTo(n) == UNION {[1..k -> Values] : k \in 0..n}

\* The store length the constructor taking explicit data expects of its
\* caller: size1 + size2 - 1, and an empty store for an empty matrix.
RequiredLen(s1, s2) == IF s1 + s2 = 0 THEN 0 ELSE s1 + s2 - 1

\* ----------------------------------------------------------- the actions
\* A constructor builds the object of slot t anew; when it raises, the
\* slot holds no object.
Construct(t, r, args) ==
    /\ mats' = [mats EXCEPT ![t] = r.obj]
    /\ last' = Call("ctor", t, args, r.err, Default, r.allocs)

ConstructDefault(t) ==
    Construct(t, CtorDefault, <<"default">>)

ConstructDims(t, s1, s2) ==
    Construct(t, CtorDims(s1, s2), <<"dims", s1, s2>>)

ConstructData(t, s1, s2, d) ==
    Construct(t, CtorData(s1, s2, d), <<"data", s1, s2>>)

ConstructRowCol(t, row, column) ==
    Construct(t, CtorRowCol(row, column), <<"rowcol", row, column>>)

Resize(t, s1, s2, preserve) ==
    /\ mats[t].live
    /\ LET r == ResizeOf(mats[t], s1, s2, preserve)
       IN  /\ mats' = [mats EXCEPT ![t] = r.obj]
           /\ last' = Call("resize", t,
                           IF preserve /\ r.err = "none"
                           THEN <<mats[t].size1, mats[t].size2>> ELSE <<>>,
                           r.err, Default, r.allocs)

Get(t, i, j) ==
    /\ mats[t].live
    /\ LET r == At(mats[t], i, j)
       IN  /\ last' = Call("get", t, <<>>, r.err, r.val, <<>>)
           /\ UNCHANGED mats

\* insert_element (i, j, t)
InsertElement(t, i, j, v) ==
    /\ mats[t].live
    /\ LET r == Put(mats[t], i, j, v)
       IN  /\ mats' = [mats EXCEPT ![t] = r.obj]
           /\ last' = Call("insert", t, <<>>, r.err, v, <<>>)

\* erase_element (i, j)
EraseElement(t, i, j) ==
    /\ mats[t].live
    /\ LET r == Put(mats[t], i, j, Default)
       IN  /\ mats' = [mats EXCEPT ![t] = r.obj]
           /\ last' = Call("erase", t, <<>>, r.err, Default, <<>>)

Clear(t) ==
    /\ mats[t].live
    /\ mats' = [mats EXCEPT ![t] = ClearOf(mats[t])]
    /\ last' = Call("clear", t, <<>>, "none", Default, <<>>)

\* t = u
Assign(t, u) ==
    /\ mats[t].live
    /\ mats[u].live
    /\ mats' = [mats EXCEPT ![t] = AssignOf(mats[t], mats[u])]
    /\ last' = Call("assign", t, <<u>>, "none", Default, <<>>)

\* t.swap (u)
Swap(t, u) ==
    /\ mats[t].live
    /\ mats[u].live
    /\ mats' = SwapOf(mats, t, u)
    /\ last' = Call("swap", t, <<u>>, "none", Default, <<>>)

\* The seeds of the two worked constructions: a 3x3 matrix from row
\* [1,2,3] and column [1,4,5], and the mismatched corners of row [1,2] and
\* column [9,4].
ScenarioRow == <<1, 2, 3>>
ScenarioColumn == <<1, 4, 5>>
MismatchRow == <<1, 2>>
MismatchColumn == <<9, 4>>

RowColInputs ==
    (SeqsUpTo(MaxDim) \X SeqsUpTo(MaxDim))
        \cup {<<ScenarioRow, ScenarioColumn>>, <<MismatchRow, MismatchColumn>>}

\* One object, every operation, every input.
Next ==
    /\ UNCHANGED <<walk, held>>
    /\ \/ ConstructDefault("a")
       \/ \E s1 \in Dims, s2 \in Dims : ConstructDims("a", s1, s2)
       \/ \E s1 \in Dims, s2 \in Dims :
            \E d \in [1..RequiredLen(s1, s2) -> Values] :
               ConstructData("a", s1, s2, d)
       \/ \E rc \in RowColInputs : ConstructRowCol("a", rc[1], rc[2])
       \/ \E s1 \in Dims, s2 \in Dims, p \in BOOLEAN : Resize("a", s1, s2, p)
       \/ \E i \in Idx, j \in Idx : Get("a", i, j)
       \/ \E i \in Idx, j \in Idx, v \in Values : InsertElement("a", i, j, v)
       \/ \E i \in Idx, j \in Idx : EraseElement("a", i, j)
       \/ Clear("a")
       \/ Assign("a", "a")
       \/ Swap("a", "a")

Spec == Init /\ [][Next]_vars

\* One object as above, and the constructor taking a store handed any
\* store at all: it takes the store as it is given.
MaxData == 2 * MaxDim - 1

NextData ==
    \/ Next
    \/ /\ UNCHANGED <<walk, held>>
       /\ \E s1 \in Dims, s2 \in Dims, d \in SeqsUpTo(MaxData) :
             ConstructData("a", s1, s2, d)

SpecData == Init /\ [][NextData]_vars

\* Two objects, the operations that change a matrix.
PairDims == 1..PairDim
PairIdx == 0..(PairDim - 1)

NextPair ==
    /\ UNCHANGED <<walk, held>>
    /\ \E t \in Slots :
          \/ \E s1 \in PairDims, s2 \in PairDims : ConstructDims(t, s1, s2)
          \/ \E s1 \in PairDims, s2 \in PairDims, p \in BOOLEAN :
               Resize(t, s1, s2, p)
          \/ \E i \in PairIdx, j \in PairIdx, v \in Values \ {Default} :
               InsertElement(t, i, j, v)
          \/ \E i \in PairIdx, j \in PairIdx : EraseElement(t, i, j)
          \/ Clear(t)
          \/ \E u \in Slots : Assign(t, u)
          \/ \E u \in Slots : Swap(t, u)

SpecPair == Init /\ [][NextPair]_vars

\* ---------------------------------------------------------- a traversal
\* The nested loop over a matrix m,
\*    for (it = m.begin1 (); it != m.end1 (); ++ it)
\*       for (jt = it.begin (); jt != it.end (); ++ jt) visit (*jt)
\* its column-major twin over begin2 () / end2 (), the same two loops with
\* the inner one reversed ("subreverse"),
\*       for (jt = it.rbegin (); jt != it.rend (); ++ jt) visit (*jt)
\* and the single reverse loop ("reverse")
\*    for (rt = m.rbegin1 (); rt != m.rend1 (); ++ rt) visit (*rt)
\* with its twin over rbegin2 () / rend2 ().  A comparison or a
\* dereference that raises ends the traversal in "failed".
MaxSeen == MaxDim * MaxDim
WalkKinds == {"forward", "subreverse", "reverse"}

OuterBegin(m, major) == IF major = 1 THEN Begin1(m) ELSE Begin2(m)
OuterEnd(m, major) == IF major = 1 THEN End1(m) ELSE End2(m)
OuterEqual(t, major, x, y) ==
    IF major = 1 THEN Equal1(t, x, t, y) ELSE Equal2(t, x, t, y)
OuterInc(major, it) == IF major = 1 THEN Inc1(it) ELSE Inc2(it)
InnerBegin(m, major, it) ==
    IF major = 1 THEN RowBegin(m, it) ELSE ColBegin(m, it)
InnerEnd(m, major, it) == IF major = 1 THEN RowEnd(m, it) ELSE ColEnd(m, it)
InnerEqual(t, major, x, y) ==
    IF major = 1 THEN Equal2(t, x, t, y) ELSE Equal1(t, x, t, y)
InnerInc(major, it) == IF major = 1 THEN Inc2(it) ELSE Inc1(it)
OuterRBegin(m, major) == IF major = 1 THEN RBegin1(m) ELSE RBegin2(m)
OuterREnd(m, major) == IF major = 1 THEN REnd1(m) ELSE REnd2(m)
InnerRBegin(m, major, it) ==
    IF major = 1 THEN RowRBegin(m, it) ELSE ColRBegin(m, it)
InnerREnd(m, major, it) ==
    IF major = 1 THEN RowREnd(m, it) ELSE ColREnd(m, it)
Minor(major) == 3 - major

\* it = m.begin1 () or m.begin2 (), rt = m.rbegin1 () or m.rbegin2 ()
BeginWalk(t, major, kind) ==
    /\ walk.pc = "idle"
    /\ mats[t].live
    /\ LET first == IF kind = "reverse" THEN OuterRBegin(mats[t], major)
                    ELSE OuterBegin(mats[t], major)
       IN  walk' = Walk("outer", t, major, first, first, 0, <<>>, kind)
    /\ UNCHANGED <<mats, last, held>>

\* it != end: leave the outer loop, or jt = it.begin () (it.rbegin ())
OuterTest ==
    /\ walk.pc = "outer"
    /\ walk.kind # "reverse"
    /\ LET m == mats[walk.of]
           e == OuterEqual(walk.of, walk.major, walk.outer,
                           OuterEnd(m, walk.major))
       IN  walk' = IF e.err # "none" THEN [walk EXCEPT !.pc = "failed"]
                   ELSE IF e.val THEN [walk EXCEPT !.pc = "done"]
                   ELSE [walk EXCEPT
                            !.pc = "inner",
                            !.inner =
                               IF walk.kind = "forward"
                               THEN InnerBegin(m, walk.major, walk.outer)
                               ELSE InnerRBegin(m, walk.major, walk.outer)]
    /\ UNCHANGED <<mats, last, held>>

\* jt != it.end (): visit (*jt) and ++ jt, or leave the inner loop and ++ it
InnerStep ==
    /\ walk.pc = "inner"
    /\ walk.kind = "forward"
    /\ Len(walk.seen) <= MaxSeen
    /\ LET m == mats[walk.of]
           e == InnerEqual(walk.of, walk.major, walk.inner,
                           InnerEnd(m, walk.major, walk.outer))
           r == Deref(m, walk.inner)
       IN  walk' = IF e.err # "none" THEN [walk EXCEPT !.pc = "failed"]
                   ELSE IF e.val
                   THEN [walk EXCEPT !.pc = "outer",
                                     !.outer = OuterInc(walk.major, @),
                                     !.incs = @ + 1]
                   ELSE IF r.err # "none" THEN [walk EXCEPT !.pc = "failed"]
                   ELSE [walk EXCEPT
                            !.inner = InnerInc(walk.major, @),
                            !.seen = Append(@, <<walk.inner.it1,
                                                 walk.inner.it2, r.val>>)]
    /\ UNCHANGED <<mats, last, held>>

\* jt != it.rend (): visit (*jt) and ++ jt, or leave the inner loop and
\* ++ it
ReverseInnerStep ==
    /\ walk.pc = "inner"
    /\ walk.kind = "subreverse"
    /\ Len(walk.seen) <= MaxSeen
    /\ LET m == mats[walk.of]
           minor == Minor(walk.major)
           e == ReverseEqual(walk.of, minor, walk.inner,
                             InnerREnd(m, walk.major, walk.outer))
           at == ReverseInc(minor, walk.inner)
           r == ReverseDeref(m, minor, walk.inner)
       IN  walk' = IF e.err # "none" THEN [walk EXCEPT !.pc = "failed"]
                   ELSE IF e.val
                   THEN [walk EXCEPT !.pc = "outer",
                                     !.outer = OuterInc(walk.major, @),
                                     !.incs = @ + 1]
                   ELSE IF r.err # "none" THEN [walk EXCEPT !.pc = "failed"]
                   ELSE [walk EXCEPT
                            !.inner = ReverseInc(minor, @),
                            !.seen = Append(@, <<at.it1, at.it2, r.val>>)]
    /\ UNCHANGED <<mats, last, held>>

\* rt != m.rend1 (): visit (*rt) and ++ rt, or leave the loop
ReverseStep ==
    /\ walk.pc = "outer"
    /\ walk.kind = "reverse"
    /\ Len(walk.seen) <= MaxSeen
    /\ LET m == mats[walk.of]
           e == ReverseEqual(walk.of, walk.major, walk.outer,
                             OuterREnd(m, walk.major))
           at == ReverseInc(walk.major, walk.outer)
           r == ReverseDeref(m, walk.major, walk.outer)
       IN  walk' = IF e.err # "none" THEN [walk EXCEPT !.pc = "failed"]
                   ELSE IF e.val THEN [walk EXCEPT !.pc = "done"]
                   ELSE IF r.err # "none" THEN [walk EXCEPT !.pc = "failed"]
                   ELSE [walk EXCEPT
                            !.outer = ReverseInc(walk.major, @),
                            !.incs = @ + 1,
                            !.seen = Append(@, <<at.it1, at.it2, r.val>>)]
    /\ UNCHANGED <<mats, last, held>>

\* The traversal is over; the next one starts from begin1 () or begin2 ()
\* again.
EndWalk ==
    /\ walk.pc \in {"done", "failed"}
    /\ walk' = NoWalk
    /\ UNCHANGED <<mats, last, held>>

\* One object, built with any sizes and any store, and traversals of it.
NextWalk ==
    \/ /\ walk.pc = "idle"
       /\ UNCHANGED <<walk, held>>
       /\ \E s1 \in Dims, s2 \in Dims :
             \E d \in [1..RequiredLen(s1, s2) -> Values] :
                ConstructData("a", s1, s2, d)
    \/ \E major \in {1, 2}, kind \in WalkKinds : BeginWalk("a", major, kind)
    \/ OuterTest
    \/ InnerStep
    \/ ReverseInnerStep
    \/ ReverseStep
    \/ EndWalk

\* A loop that has started runs on: its steps are not postponed for ever.
SpecWalk ==
    Init /\ [][NextWalk]_vars
         /\ WF_vars(OuterTest) /\ WF_vars(InnerStep)
         /\ WF_vars(ReverseInnerStep) /\ WF_vars(ReverseStep)

\* ------------------------------------------------- iterators compared
IterAxes == {1, 2}
CompareOps == {"minus", "equal", "less"}

HeldBegin(m, axis) == IF axis = 1 THEN Begin1(m) ELSE Begin2(m)
HeldEnd(m, axis) == IF axis = 1 THEN End1(m) ELSE End2(m)

\* The index operator ++ advances, and the coordinate that stays fixed.
Advancing(axis, it) == IF axis = 1 THEN it.it1 ELSE it.it2
Fixed(axis, it) == IF axis = 1 THEN it.it2 ELSE it.it1
Extent(m, axis) == IF axis = 1 THEN m.size1 ELSE m.size2

Touch(t) == Call("iter", t, <<>>, "none", Default, <<>>)

\* held[k] = t.begin1 (), t.end1 (), t.begin2 () or t.end2 ()
TakeIter(k, t, axis, atEnd) ==
    /\ mats[t].live
    /\ held' = [held EXCEPT ![k] =
                   Iter(t, axis, IF atEnd THEN HeldEnd(mats[t], axis)
                                 ELSE HeldBegin(mats[t], axis))]
    /\ last' = Touch(t)
    /\ UNCHANGED <<mats, walk>>

\* ++ held[k], up to the end position
StepIter(k) ==
    /\ Advancing(held[k].axis, held[k].pos)
          < Extent(mats[held[k].owner], held[k].axis)
    /\ held' = [held EXCEPT ![k].pos =
                   IF held[k].axis = 1 THEN Inc1(@) ELSE Inc2(@)]
    /\ last' = Touch(held[k].owner)
    /\ UNCHANGED <<mats, walk>>

\* held[k] = held[k].begin () or held[k].end (): an iterator of the other
\* class, at the row or the column held[k] stands in.
SubIter(k, atEnd) ==
    /\ LET h == held[k]
           m == mats[h.owner]
       IN  held' = [held EXCEPT ![k] =
                      IF h.axis = 1
                      THEN Iter(h.owner, 2, IF atEnd THEN RowEnd(m, h.pos)
                                            ELSE RowBegin(m, h.pos))
                      ELSE Iter(h.owner, 1, IF atEnd THEN ColEnd(m, h.pos)
                                            ELSE ColBegin(m, h.pos))]
    /\ last' = Touch(held[k].owner)
    /\ UNCHANGED <<mats, walk>>

CompareOf(op, p, q) ==
    IF p.axis = 1
    THEN CASE op = "minus" -> Minus1(p.owner, p.pos, q.owner, q.pos)
           [] op = "equal" -> Equal1(p.owner, p.pos, q.owner, q.pos)
           [] op = "less" -> Less1(p.owner, p.pos, q.owner, q.pos)
    ELSE CASE op = "minus" -> Minus2(p.owner, p.pos, q.owner, q.pos)
           [] op = "equal" -> Equal2(p.owner, p.pos, q.owner, q.pos)
           [] op = "less" -> Less2(p.owner, p.pos, q.owner, q.pos)

\* held[1] - held[2], held[1] == held[2] or held[1] < held[2], of two
\* iterators of one class
Compare(op) ==
    /\ held[1].axis = held[2].axis
    /\ LET r == CompareOf(op, held[1], held[2])
       IN  last' = Call(op, held[1].owner, <<>>, r.err, r.val, <<>>)
    /\ UNCHANGED <<mats, walk, held>>

\* Two objects and two iterators over them; the iterators are taken anew
\* when an object is built.
NextIter ==
    \/ /\ held' = NoHeld
       /\ UNCHANGED walk
       /\ \E t \in Slots, s1 \in PairDims, s2 \in PairDims :
             ConstructDims(t, s1, s2)
    \/ \E k \in {1, 2}, t \in Slots, axis \in IterAxes, atEnd \in BOOLEAN :
          TakeIter(k, t, axis, atEnd)
    \/ \E k \in {1, 2} : StepIter(k)
    \/ \E k \in {1, 2}, atEnd \in BOOLEAN : SubIter(k, atEnd)
    \/ \E op \in CompareOps : Compare(op)

SpecIter == Init /\ [][NextIter]_vars

\* ------------------------------------------------------------ the claims
Ok(v) == [err |-> "none", val |-> v]
Cells(m) == (0..(m.size1 - 1)) \X (0..(m.size2 - 1))
LastRowCol == last.op = "ctor" /\ last.args[1] = "rowcol"

\* C1: in every reachable state, every element off the first row and the
\* first column reads the same value as its upper-left neighbour:
\* get(i, j) = get(i - 1, j - 1) for 1 <= i < rows, 1 <= j < cols.
ConstantDiagonal ==
    \A t \in Slots :
       mats[t].live =>
          \A i \in 1..(mats[t].size1 - 1), j \in 1..(mats[t].size2 - 1) :
             /\ At(mats[t], i, j).err = "none"
             /\ At(mats[t], i, j) = At(mats[t], i - 1, j - 1)

\* A 2x2 or larger matrix whose diagonals differ, reached by a write.
ConstantDiagonalWitness ==
    /\ last.op = "insert"
    /\ last.err = "none"
    /\ \E t \in Slots :
          /\ mats[t].live
          /\ mats[t].size1 >= 2
          /\ mats[t].size2 >= 2
          /\ At(mats[t], 1, 1) = Ok(1)
          /\ At(mats[t], 1, 0) = Ok(0)

\* C2: a write of v at a valid (i, j), by insert_element or by
\* erase_element (v the default value), makes every valid cell of the
\* diagonal i' - j' = i - j read v and leaves the cells of every other
\* diagonal reading what they read before.
WriteEffect(t, i, j, v) ==
    (i < mats[t].size1 /\ j < mats[t].size2) =>
       /\ last'.err = "none"
       /\ \A c \in Cells(mats[t]) :
             At(mats'[t], c[1], c[2]) =
                IF c[1] - c[2] = i - j THEN Ok(v)
                ELSE At(mats[t], c[1], c[2])
       /\ \A c \in Cells(mats[t]) : At(mats[t], c[1], c[2]).err = "none"

DiagonalWriteAliasing ==
    [][last'.op \in {"insert", "erase"} =>
          \A i \in Idx, j \in Idx :
             /\ \A v \in Values :
                   InsertElement(last'.tgt, i, j, v) =>
                      WriteEffect(last'.tgt, i, j, v)
             /\ EraseElement(last'.tgt, i, j) =>
                   WriteEffect(last'.tgt, i, j, Default)]_vars

\* A write of 1 that landed on the main diagonal of a 2x2 or larger matrix
\* and left the diagonal below it at 0.
DiagonalWriteAliasingWitness ==
    /\ last.op = "insert"
    /\ last.err = "none"
    /\ last.ret = 1
    /\ mats["a"].size1 >= 2
    /\ mats["a"].size2 >= 2
    /\ At(mats["a"], 0, 0) = Ok(1)
    /\ At(mats["a"], 1, 1) = Ok(1)
    /\ At(mats["a"], 1, 0) = Ok(0)
    /\ At(mats["a"], 0, 1) = Ok(0)

\* C3: the matrix built from a non-empty row r and column c with
\* r[0] = c[0] has rows = |c|, cols = |r|, first row r and first column c,
\* so get(i, j) is r[j - i] on and above the main diagonal and c[i - j]
\* below it; the 3x3 matrix of row [1,2,3] and column [1,4,5] reads
\* 1 2 3 / 4 1 2 / 5 4 1.
RowColRoundTrip ==
    (/\ LastRowCol
     /\ Len(last.args[2]) > 0
     /\ Len(last.args[3]) > 0
     /\ last.args[2][1] = last.args[3][1]) =>
       LET r == last.args[2]
           c == last.args[3]
           m == mats[last.tgt]
       IN  /\ last.err = "none"
           /\ m.live
           /\ m.size1 = Len(c)
           /\ m.size2 = Len(r)
           /\ \A k \in 0..(m.size2 - 1) : At(m, 0, k) = Ok(r[k + 1])
           /\ \A k \in 0..(m.size1 - 1) : At(m, k, 0) = Ok(c[k + 1])
           /\ \A x \in Cells(m) :
                 At(m, x[1], x[2]) =
                    IF x[2] >= x[1] THEN Ok(r[x[2] - x[1] + 1])
                    ELSE Ok(c[x[1] - x[2] + 1])
           /\ (r = ScenarioRow /\ c = ScenarioColumn) =>
                 /\ At(m, 0, 0) = Ok(1) /\ At(m, 1, 0) = Ok(4)
                 /\ At(m, 2, 0) = Ok(5) /\ At(m, 0, 1) = Ok(2)
                 /\ At(m, 0, 2) = Ok(3) /\ At(m, 1, 1) = Ok(1)
                 /\ At(m, 2, 2) = Ok(1) /\ At(m, 1, 2) = Ok(2)
                 /\ At(m, 2, 1) = Ok(4)

\* The 3x3 matrix of row [1,2,3] and column [1,4,5] has been built.
RowColRoundTripWitness ==
    /\ LastRowCol
    /\ last.args[2] = ScenarioRow
    /\ last.args[3] = ScenarioColumn
    /\ last.err = "none"
    /\ mats[last.tgt].size1 = 3

\* C4: resize (size1, size2, true) raises external_logic and leaves the
\* sizes and the store as they were when size1 + size2 differs from the
\* current rows + cols; otherwise it returns, the sizes are the requested
\* ones and every slot of the store is unchanged.
ResizePreserveAllOrNothing ==
    [][last'.op = "resize" =>
          LET t == last'.tgt
          IN  \A s1 \in Dims, s2 \in Dims :
                 Resize(t, s1, s2, TRUE) =>
                    IF s1 + s2 # mats[t].size1 + mats[t].size2
                    THEN /\ last'.err = "external_logic"
                         /\ mats' = mats
                    ELSE /\ last'.err = "none"
                         /\ mats'[t].size1 = s1
                         /\ mats'[t].size2 = s2
                         /\ mats'[t].data = mats[t].data]_vars

\* A preserving resize refused on a matrix that holds a written value.
ResizePreserveWitness ==
    /\ last.op = "resize"
    /\ last.err = "external_logic"
    /\ mats[last.tgt].size1 >= 1
    /\ mats[last.tgt].size2 >= 2
    /\ At(mats[last.tgt], 0, 1) = Ok(1)

\* C5: construction from a non-empty row and a non-empty column whose
\* first values differ raises external_logic and leaves no matrix.
MismatchedCornersFail ==
    (/\ LastRowCol
     /\ Len(last.args[2]) > 0
     /\ Len(last.args[3]) > 0
     /\ last.args[2][1] # last.args[3][1]) =>
       /\ last.err = "external_logic"
       /\ ~mats[last.tgt].live

\* The construction from row [1,2] and column [9,4] has been attempted.
MismatchedCornersWitness ==
    /\ LastRowCol
    /\ last.args[2] = MismatchRow
    /\ last.args[3] = MismatchColumn
    /\ last.err = "external_logic"

\* C6: construction from a row and a column of which at least one is
\* empty raises external_logic, without having requested any store, and
\* leaves no matrix.
EmptySeedFailsFirst ==
    (/\ LastRowCol
     /\ (Len(last.args[2]) = 0 \/ Len(last.args[3]) = 0)) =>
       /\ last.err = "external_logic"
       /\ last.allocs = <<>>
       /\ ~mats[last.tgt].live

\* C7: every read or write at an index pair with i >= rows or j >= cols
\* raises bad_index, by operator (), insert_element, erase_element or the
\* dereference of an iterator (end1 () and end2 () among them), and the
\* failing call leaves the sizes and the store as they were.
OutOfRange(m, i, j) == i >= m.size1 \/ j >= m.size2

CheckedReads ==
    \A t \in Slots :
       mats[t].live =>
          /\ \A i \in Idx, j \in Idx :
                OutOfRange(mats[t], i, j) =>
                   /\ At(mats[t], i, j).err = "bad_index"
                   /\ Deref(mats[t], [it1 |-> i, it2 |-> j]).err = "bad_index"
          /\ Deref(mats[t], End1(mats[t])).err = "bad_index"
          /\ Deref(mats[t], End2(mats[t])).err = "bad_index"

CheckedCalls ==
    last'.op \in {"get", "insert", "erase"} =>
       LET t == last'.tgt
       IN  \A i \in Idx, j \in Idx :
              (/\ OutOfRange(mats[t], i, j)
               /\ \/ Get(t, i, j)
                  \/ EraseElement(t, i, j)
                  \/ \E v \in Values : InsertElement(t, i, j, v)) =>
                 /\ last'.err = "bad_index"
                 /\ mats' = mats

CheckedAccess == [](CheckedReads) /\ [][CheckedCalls]_vars

\* A write refused on a 2x2 matrix that holds a written value.
CheckedAccessWitness ==
    /\ last.op = "insert"
    /\ last.err = "bad_index"
    /\ mats[last.tgt].size1 = 2
    /\ mats[last.tgt].size2 = 2
    /\ At(mats[last.tgt], 1, 1) = Ok(1)

\* C8: swap between two distinct matrices leaves each with the rows, the
\* cols and the element values the other had; swap of a matrix with itself
\* changes nothing.
SameMatrix(x, y) ==
    /\ x.size1 = y.size1
    /\ x.size2 = y.size2
    /\ \A c \in Cells(x) : At(x, c[1], c[2]) = At(y, c[1], c[2])

SwapExchanges ==
    [][last'.op = "swap" =>
          \A t \in Slots, u \in Slots :
             Swap(t, u) =>
                IF t # u
                THEN /\ SameMatrix(mats'[t], mats[u])
                     /\ SameMatrix(mats'[u], mats[t])
                     /\ mats'[t].live /\ mats'[u].live
                ELSE mats' = mats]_vars

\* A swap of two matrices that differ in rows, cols and corner value.
SwapExchangesWitness ==
    /\ last.op = "swap"
    /\ last.args[1] # last.tgt
    /\ mats["a"].size1 # mats["b"].size1
    /\ mats["a"].size2 # mats["b"].size2
    /\ At(mats["a"], 0, 0) = Ok(1)
    /\ At(mats["b"], 0, 0) = Ok(0)

\* C9: after clear () every valid (i, j) reads the default value, whatever
\* the matrix held; rows, cols and the length of the store are unchanged.
ClearZeroes ==
    [][last'.op = "clear" =>
          LET t == last'.tgt
          IN  Clear(t) =>
                 /\ mats'[t].size1 = mats[t].size1
                 /\ mats'[t].size2 = mats[t].size2
                 /\ Len(mats'[t].data) = Len(mats[t].data)
                 /\ \A c \in Cells(mats'[t]) :
                       At(mats'[t], c[1], c[2]) = Ok(Default)]_vars

\* A 2x2 or larger matrix has been cleared.
ClearZeroesWitness ==
    /\ last.op = "clear"
    /\ mats[last.tgt].size1 >= 2
    /\ mats[last.tgt].size2 >= 2

\* C10: resize (size1, size2, false) always returns, with the sizes the
\* requested ones, a store of size1 + size2 - 1 slots and every valid
\* (i, j) reading the default value.
ResizeDiscardAlwaysSucceeds ==
    [][last'.op = "resize" =>
          LET t == last'.tgt
          IN  \A s1 \in Dims, s2 \in Dims :
                 Resize(t, s1, s2, FALSE) =>
                    /\ last'.err = "none"
                    /\ mats'[t].size1 = s1
                    /\ mats'[t].size2 = s2
                    /\ (s1 + s2 >= 1) => Len(mats'[t].data) = s1 + s2 - 1
                    /\ \A c \in Cells(mats'[t]) :
                          At(mats'[t], c[1], c[2]) = Ok(Default)]_vars

\* C11: t = u leaves t with the rows, the cols and every element of u and
\* leaves u as it was (t = t changes nothing); the two objects share no
\* store: a write, an erase, a clear or a resize on one matrix leaves the
\* sizes and the store of every other matrix as they were.
Mutators == {"insert", "erase", "clear", "resize"}

AssignDeepCopy ==
    [][/\ last'.op = "assign" =>
             \A t \in Slots, u \in Slots :
                Assign(t, u) =>
                   /\ SameMatrix(mats'[t], mats[u])
                   /\ mats'[t].live
                   /\ \A c \in Cells(mats[u]) :
                         At(mats'[t], c[1], c[2]).err = "none"
                   /\ \A x \in Slots \ {t} : mats'[x] = mats[x]
                   /\ (t = u) => mats' = mats
       /\ last'.op \in Mutators =>
             \A x \in Slots \ {last'.tgt} : mats'[x] = mats[x]]_vars

\* An assignment between two distinct objects that gave the target a 2x2
\* matrix with a written value below the main diagonal.
AssignDeepCopyWitness ==
    /\ last.op = "assign"
    /\ last.args[1] # last.tgt
    /\ mats[last.tgt].size1 = 2
    /\ mats[last.tgt].size2 = 2
    /\ At(mats[last.tgt], 1, 0) = Ok(1)
    /\ At(mats[last.tgt], 0, 0) = Ok(0)
    /\ mats[last.args[1]] = mats[last.tgt]

\* C12: a nested traversal, row-major from begin1 () or column-major from
\* begin2 (), starts at index 0, raises nothing, dereferences the cells in
\* order, each exactly once and each reading get (i, j), and ends: the
\* outer iterator equals end1 () after exactly rows increments (end2 ():
\* cols), each inner range having visited j = 0 .. cols - 1 at its fixed i
\* (i = 0 .. rows - 1 at its fixed j).
CellAt(m, major, k) ==
    IF major = 1
    THEN <<(k - 1) \div m.size2, (k - 1) % m.size2>>
    ELSE <<(k - 1) % m.size1, (k - 1) \div m.size1>>

Visit(m, c) == <<c[1], c[2], At(m, c[1], c[2]).val>>

WholeWalk(m, major) ==
    [k \in 1..(m.size1 * m.size2) |-> Visit(m, CellAt(m, major, k))]

WalkInOrder ==
    LET m == mats[walk.of]
        whole == WholeWalk(m, walk.major)
    IN  walk.kind = "forward" =>
        /\ walk.pc # "failed"
        /\ walk.pc # "idle" =>
              /\ Len(walk.seen) <= Len(whole)
              /\ walk.seen = SubSeq(whole, 1, Len(walk.seen))
              /\ Advancing(walk.major, walk.outer) = walk.incs
              /\ walk.incs <= Extent(m, walk.major)
              /\ \A c \in Cells(m) : At(m, c[1], c[2]).err = "none"
        /\ walk.pc = "done" =>
              /\ walk.seen = whole
              /\ walk.incs = Extent(m, walk.major)
              /\ walk.outer = OuterEnd(m, walk.major)

TwoDimensionalTraversal ==
    /\ []WalkInOrder
    /\ (walk.kind = "forward" /\ walk.pc \in {"outer", "inner"})
          ~> (walk.pc = "done")

\* A column-major traversal of a 2x2 matrix whose three diagonals do not
\* all hold the same value has ended after four dereferences.
TwoDimensionalTraversalWitness ==
    /\ walk.pc = "done"
    /\ walk.kind = "forward"
    /\ walk.major = 2
    /\ mats[walk.of].size1 = 2
    /\ mats[walk.of].size2 = 2
    /\ Len(walk.seen) = 4
    /\ walk.seen[2] = <<1, 0, 1>>
    /\ walk.seen[3] = <<0, 1, 0>>

\* C13: operator -, operator == and operator < of two iterators of one
\* class raise external_logic when the iterators refer to different
\* matrices or differ in the coordinate their class keeps fixed (it2_ for
\* axis 1, it1_ for axis 2); otherwise they return the difference, the
\* equality and the strict order of the advancing indices alone.
IteratorComparison ==
    last.op \in CompareOps =>
       LET p == held[1]
           q == held[2]
           a == Advancing(p.axis, p.pos)
           b == Advancing(q.axis, q.pos)
       IN  IF \/ p.owner # q.owner
              \/ Fixed(p.axis, p.pos) # Fixed(q.axis, q.pos)
           THEN last.err = "external_logic"
           ELSE /\ last.err = "none"
                /\ last.op = "minus" => last.ret = a - b
                /\ last.op = "equal" => last.ret = (a = b)
                /\ last.op = "less" => last.ret = (a < b)

\* A difference refused between two row iterators of one matrix that
\* stand in different columns.
IteratorComparisonWitness ==
    /\ last.op = "minus"
    /\ last.err = "external_logic"
    /\ held[1].owner = held[2].owner
    /\ held[1].axis = 1
    /\ held[1].pos.it2 # held[2].pos.it2

\* C14: the reverse loop from rbegin1 () to rend1 () visits the row
\* indices rows - 1 down to 0 in exactly rows steps (rbegin2 () to
\* rend2 (): the column indices cols - 1 down to 0 in cols steps), each
\* dereference reading what the forward iterator at that index reads, and
\* raising only where that forward iterator raises; the inner loop from
\* rbegin () to rend () of a row or column position does the same along
\* the other axis.  Both loops end.
ForwardAt(major, idx) ==
    IF major = 1 THEN [it1 |-> idx, it2 |-> 0] ELSE [it1 |-> 0, it2 |-> idx]

ReverseWhole(m, major) ==
    [k \in 1..Extent(m, major) |->
        LET fwd == ForwardAt(major, Extent(m, major) - k)
        IN  <<fwd.it1, fwd.it2, Deref(m, fwd).val>>]

SubReverseCellAt(m, major, k) ==
    IF major = 1
    THEN <<(k - 1) \div m.size2, m.size2 - 1 - ((k - 1) % m.size2)>>
    ELSE <<m.size1 - 1 - ((k - 1) % m.size1), (k - 1) \div m.size1>>

SubReverseWhole(m, major) ==
    [k \in 1..(m.size1 * m.size2) |-> Visit(m, SubReverseCellAt(m, major, k))]

ReverseInOrder ==
    LET m == mats[walk.of]
        n == Extent(m, walk.major)
    IN  /\ (walk.kind = "reverse" /\ walk.pc # "idle") =>
              /\ Len(walk.seen) <= n
              /\ walk.seen = SubSeq(ReverseWhole(m, walk.major), 1,
                                    Len(walk.seen))
              /\ walk.incs = Len(walk.seen)
              /\ Advancing(walk.major, walk.outer) = n - walk.incs
              /\ walk.pc = "failed" =>
                    Deref(m, ForwardAt(walk.major, n - walk.incs - 1)).err
                       # "none"
              /\ walk.pc = "done" =>
                    /\ walk.seen = ReverseWhole(m, walk.major)
                    /\ walk.incs = n
                    /\ walk.outer = OuterREnd(m, walk.major)
                    /\ \A k \in 0..(n - 1) :
                          Deref(m, ForwardAt(walk.major, k)).err = "none"
        /\ (walk.kind = "subreverse" /\ walk.pc # "idle") =>
              /\ walk.pc # "failed"
              /\ Len(walk.seen) <= m.size1 * m.size2
              /\ walk.seen = SubSeq(SubReverseWhole(m, walk.major), 1,
                                    Len(walk.seen))
              /\ Advancing(walk.major, walk.outer) = walk.incs
              /\ walk.pc = "done" =>
                    /\ walk.seen = SubReverseWhole(m, walk.major)
                    /\ walk.incs = n

ReverseTraversal ==
    /\ []ReverseInOrder
    /\ (walk.kind # "forward" /\ walk.pc \in {"outer", "inner"})
          ~> (walk.pc \in {"done", "failed"})

\* The reverse loop over the rows of a 2x2 matrix has ended after reading
\* row 1 and then row 0, which hold different values in column 0.
ReverseTraversalWitness ==
    /\ walk.pc = "done"
    /\ walk.kind = "reverse"
    /\ walk.major = 1
    /\ mats[walk.of].size1 = 2
    /\ mats[walk.of].size2 = 2
    /\ walk.seen = <<(<<1, 0, 1>>), (<<0, 0, 0>>)>>

\* C15: for every valid (i, j) of every reachable matrix the slot indexed
\* by operator () is rows - 1 - i + j, the same in the const and in the
\* mutable overload and in both branches, and lies in 0 .. rows + cols - 2;
\* every slot of that range is indexed by some valid (i, j); the slot
\* depends on i, j and rows alone; a read leaves the matrix as it was.
OffsetInRange(m) ==
    \A c \in Cells(m) :
       LET i == c[1]
           j == c[2]
       IN  /\ Offset(m, i, j) = m.size1 - 1 - i + j
           /\ OffsetMutable(m, i, j) = Offset(m, i, j)
           /\ OffsetLower(m, i, j) = OffsetUpper(m, i, j)
           /\ Offset(m, i, j) >= 0
           /\ Offset(m, i, j) < m.size1 + m.size2 - 1
           /\ \A s2 \in Dims :
                 Offset(Matrix(m.size1, s2, <<>>), i, j) = Offset(m, i, j)

OffsetOnto(m) ==
    \A k \in 0..(m.size1 + m.size2 - 2) :
       \E c \in Cells(m) : Offset(m, c[1], c[2]) = k

OffsetOfCells ==
    \A t \in Slots :
       mats[t].live =>
          /\ OffsetInRange(mats[t])
          /\ (mats[t].size1 > 0 /\ mats[t].size2 > 0) => OffsetOnto(mats[t])

ReadsLeaveMatrix ==
    last'.op = "get" =>
       \A i \in Idx, j \in Idx : Get(last'.tgt, i, j) => mats' = mats

IndexMapping == []OffsetOfCells /\ [][ReadsLeaveMatrix]_vars

\* The last slot of a 2x2 matrix, which alone holds a written value, has
\* been read through its only cell (0, 1).
IndexMappingWitness ==
    /\ last.op = "get"
    /\ last.err = "none"
    /\ last.ret = 1
    /\ mats[last.tgt].size1 = 2
    /\ mats[last.tgt].size2 = 2
    /\ mats[last.tgt].data = <<0, 0, 1>>

\* C16: in every state reached by any constructor, the one taking a store
\* included, and any operations after it, a matrix with rows > 0 and
\* cols > 0 has a store of rows + cols - 1 slots, so that every valid
\* (i, j) reads a slot of the store.
StorageLength ==
    \A t \in Slots :
       (mats[t].live /\ mats[t].size1 > 0 /\ mats[t].size2 > 0) =>
          /\ Len(mats[t].data) = mats[t].size1 + mats[t].size2 - 1
          /\ \A c \in Cells(mats[t]) : At(mats[t], c[1], c[2]).err = "none"

\* C17: a matrix with rows = cols = 0 holds a store of length 0, whether
\* it was default-constructed, built by toeplitz_matrix (0, 0) or resized
\* by resize (0, 0, false): toeplitz_matrix (0, 0) returns, and no store
\* length requested, size1 + size2 - 1 in size_type arithmetic, is the
\* wrapped-around 2^w - 1.
ZeroSizedEmptyStore ==
    /\ \A k \in 1..Len(last.allocs) : last.allocs[k] # SizeMod - 1
    /\ (last.op = "ctor" /\ last.args = <<"dims", 0, 0>>) =>
          /\ last.err = "none"
          /\ mats[last.tgt].live
    /\ \A t \in Slots :
          (mats[t].live /\ mats[t].size1 = 0 /\ mats[t].size2 = 0) =>
             Len(mats[t].data) = 0

\* C18: after resize (s1, s2, true) has returned on a matrix of rows x
\* cols, every (i, j) valid under the new sizes for which
\* (i + rows - s1, j) was valid under the old ones reads what that cell
\* read; with s1 = rows every cell reads what it read; and resizing back to
\* rows x cols, nothing written in between, restores the matrix.
ReshapeReinterprets ==
    [][last'.op = "resize" =>
          LET t == last'.tgt
              old == mats[t]
              new == mats'[t]
          IN  \A s1 \in Dims, s2 \in Dims :
                 (Resize(t, s1, s2, TRUE) /\ last'.err = "none") =>
                    /\ \A c \in Cells(new) :
                          LET i0 == c[1] + old.size1 - s1
                          IN  <<i0, c[2]>> \in Cells(old) =>
                                 /\ At(old, i0, c[2]).err = "none"
                                 /\ At(new, c[1], c[2]) = At(old, i0, c[2])
                    /\ s1 = old.size1 => SameMatrix(new, old)
                    /\ ResizeOf(new, old.size1, old.size2, TRUE).err = "none"
                    /\ ResizeOf(new, old.size1, old.size2, TRUE).obj = old]_vars

\* A 1x2 matrix reading 0 1 has been reshaped into a 2x1 matrix, whose
\* cell (0, 0) now reads 1 and whose cell (1, 0) reads what (0, 0) read.
ReshapeReinterpretsWitness ==
    /\ last.op = "resize"
    /\ last.err = "none"
    /\ last.args = <<1, 2>>
    /\ mats[last.tgt].size1 = 2
    /\ mats[last.tgt].size2 = 1
    /\ At(mats[last.tgt], 0, 0) = Ok(1)
    /\ At(mats[last.tgt], 1, 0) = Ok(0)

====
